---- MODULE Spec2Model ----
(***************************************************************************)
(* Model of py-caskdb: format.py (the record codec) and disk_store.py      *)
(* (DiskStorage: append-only log file plus the in-memory KeyDir).          *)
(*                                                                         *)
(* Representation.                                                         *)
(*  - A byte is an integer 0..255; bytes objects and the file content are  *)
(*    sequences of bytes.                                                  *)
(*  - A str is the sequence of its code points; 'ascii' encoding accepts   *)
(*    code points below 128 and maps each to the byte of the same number,  *)
(*    decoding accepts bytes below 128.                                    *)
(*  - A Python int that may exceed 31 bits (timestamps, sizes decoded      *)
(*    from a header) is a pair <<hi, lo>> standing for hi * 2^16 + lo with *)
(*    0 <= lo < 2^16; hi is negative for a negative int.  File positions   *)
(*    and len() results stay far below 2^16 in the model and are plain     *)
(*    naturals.                                                            *)
(***************************************************************************)
EXTENDS Integers, Sequences, FiniteSets, TLC

\* ------------------------------------------------------------------ bounds
MaxSets == 3
MaxTailSets == 1
\* sets made through two objects on one file
MaxStoreSets == 2

\* --------------------------------------------------------------- constants
HEADER_SIZE == 12
INT_WIDTH_BYTES == 4
\* code points and bytes below this are the 7-bit ones the 'ascii' codec takes
AsciiLimit == 128
\* radix of the <<hi, lo>> pairs: 2^16, so that 32 bits are two digits
Half == 256 * 256

FileName == "data.db"

\* ------------------------------------------------------------------ inputs
\* keys and values handed to set/get: "a", "bc", "", "yz", and one with U+00E9
Keys == { <<97>>, <<98, 99>>, <<233>> }
Values == { <<>>, <<121, 122>>, <<233>> }
\* int(time.time()): 1, 2^32 - 1, 2^32, -1
Timestamps == { <<0, 1>>, <<65535, 65535>>, <<65536, 0>>, <<0 - 1, 65535>> }

VARIABLES
    exists,      \* the file is present on disk
    file,        \* content of the file, a sequence of bytes
    status,      \* the DiskStorage object: "none" (not constructed, or its
                 \* process died), "ready", "closed", "failed" (__init__ raised)
    key_dir,     \* self.key_dir
    read_open,   \* self.read_file is an open handle
    write_open,  \* self.write_file is an open handle
    ret,         \* outcome of the last call
    last,        \* history: key -> value of the last successful set
    sets,        \* history: number of appends started
    crashed,     \* history: some append was cut short by a crash
    tail_sets,   \* history: number of sets completed since that crash
    opened_on,   \* history: what the file held when the store was opened:
                 \* "empty", "records" (complete records only) or "other"
    codec,       \* a call of encode_kv / decode_kv on its own (SpecCodec)
    conc,        \* two threads inside set of one store (SpecThreads)
    stores       \* two DiskStorage objects on one file (SpecTwoStores)

vars == <<exists, file, status, key_dir, read_open, write_open, ret,
          last, sets, crashed, tail_sets, opened_on, codec, conc, stores>>

\* what the single-store operations never touch
Idle == "idle"

\* ------------------------------------------------------------- primitives
Min(a, b) == IF a <= b THEN a ELSE b

\* len(x) as a Python int
PyInt(n) == <<n \div Half, n % Half>>

\* bytes.decode('ascii') / str.encode('ascii') succeed
IsAscii(s) == \A i \in 1..Len(s) : s[i] < AsciiLimit

\* number of bytes f.read(n) returns when avail bytes remain before EOF; an n
\* of 2^16 or more (n[1] > 0) exceeds what any file of the model holds
ReadCount(n, avail) == IF n[1] > 0 THEN avail ELSE Min(n[2], avail)

\* f.seek(pos) ; f.read(n) on content data
ReadAt(data, pos, n) ==
    LET avail == IF pos >= Len(data) THEN 0 ELSE Len(data) - pos
    IN  SubSeq(data, pos + 1, pos + ReadCount(n, avail))

EmptyDir == [k \in {} |-> 0]

Put(d, k, e) == [x \in (DOMAIN d) \cup {k} |-> IF x = k THEN e ELSE d[x]]

\* ------------------------------------------------------------- format.py
\* the_int.bit_length() > 32, that is abs(the_int) >= 2^32
TooWide(the_int) ==
    \/ the_int[1] >= Half
    \/ the_int[1] < 0 - Half
    \/ (the_int[1] = 0 - Half /\ the_int[2] = 0)

\* int_to_bytes in little-endian byte order
int_to_bytes_Little(the_int) ==
    IF TooWide(the_int)
    THEN [err |-> "struct.error", bytes |-> <<>>]
    ELSE IF the_int[1] < 0
    THEN [err |-> "OverflowError", bytes |-> <<>>]
    ELSE [err |-> "",
          bytes |-> << the_int[2] % 256, the_int[2] \div 256,
                       the_int[1] % 256, the_int[1] \div 256 >>]

int_to_bytes(the_int) ==
    IF TooWide(the_int)
    THEN [err |-> "struct.error", bytes |-> <<>>]
    ELSE IF the_int[1] < 0
    THEN [err |-> "OverflowError", bytes |-> <<>>]
    ELSE [err |-> "",
          bytes |-> << the_int[1] \div 256, the_int[1] % 256,
                       the_int[2] \div 256, the_int[2] % 256 >>]

encode_header(timestamp, key_size, value_size) ==
    LET t == int_to_bytes(timestamp)
        k == int_to_bytes(key_size)
        v == int_to_bytes(value_size)
    IN  IF t.err # "" THEN t
        ELSE IF k.err # "" THEN k
        ELSE IF v.err # "" THEN v
        ELSE [err |-> "", bytes |-> t.bytes \o k.bytes \o v.bytes]

encode_kv(timestamp, key, value) ==
    IF ~IsAscii(key) \/ ~IsAscii(value)
    THEN [err |-> "UnicodeEncodeError", size |-> 0, bytes |-> <<>>]
    ELSE LET header_bytes == encode_header(timestamp, PyInt(Len(key)), PyInt(Len(value)))
         IN  IF header_bytes.err # ""
             THEN [err |-> header_bytes.err, size |-> 0, bytes |-> <<>>]
             ELSE LET encoded == header_bytes.bytes \o key \o value
                  IN  [err |-> "", size |-> Len(encoded), bytes |-> encoded]

\* data[a:b] for 0 <= a <= b
Slice(data, a, b) == SubSeq(data, Min(a, Len(data)) + 1, Min(b, Len(data)))

\* int.from_bytes(b, BIG_ENDIAN) for at most 4 bytes
from_bytes(b) ==
    LET pad == INT_WIDTH_BYTES - Len(b)
        p == [i \in 1..INT_WIDTH_BYTES |-> IF i <= pad THEN 0 ELSE b[i - pad]]
    IN  << p[1] * 256 + p[2], p[3] * 256 + p[4] >>

decode_header(data) ==
    [timestamp  |-> from_bytes(Slice(data, 0, 4)),
     key_size   |-> from_bytes(Slice(data, 4, 8)),
     value_size |-> from_bytes(Slice(data, 8, 12))]

\* decode_kv: the exception raised, if any, and the triple returned
decode_kv(data) ==
    LET h == decode_header(Slice(data, 0, HEADER_SIZE))
        key_bytes == ReadAt(data, HEADER_SIZE, h.key_size)
        value_bytes == Slice(data, HEADER_SIZE + Len(key_bytes), Len(data))
    IN  IF IsAscii(key_bytes) /\ IsAscii(value_bytes)
        THEN [err |-> "", timestamp |-> h.timestamp,
              key |-> key_bytes, value |-> value_bytes]
        ELSE [err |-> "UnicodeDecodeError", timestamp |-> <<0, 0>>,
              key |-> <<>>, value |-> <<>>]

\* ------------------------------------------------------------ disk_store.py
Entry(file_name, timestamp, value_size, value_position) ==
    [file_name |-> file_name, value_size |-> value_size,
     value_position |-> value_position, timestamp |-> timestamp]

\* load_loop taking a short header for the end of the file
RECURSIVE load_loop_ShortIsEnd(_, _, _)
load_loop_ShortIsEnd(data, pos, kd) ==
    LET header == ReadAt(data, pos, PyInt(HEADER_SIZE))
    IN  IF Len(header) < 12
        THEN [err |-> "", key_dir |-> kd]
        ELSE LET h == decode_header(header)
                 key_bytes == ReadAt(data, pos + HEADER_SIZE, h.key_size)
                 value_position == pos + HEADER_SIZE + Len(key_bytes)
                 skipped == ReadAt(data, value_position, h.value_size)
             IN  IF ~IsAscii(key_bytes)
                 THEN [err |-> "UnicodeDecodeError", key_dir |-> kd]
                 ELSE load_loop_ShortIsEnd(data, value_position + Len(skipped),
                        Put(kd, key_bytes,
                            Entry(FileName, h.timestamp, h.value_size,
                                  value_position)))

\* load_loop that does not keep the timestamp of the header
RECURSIVE load_loop_NoTimestamp(_, _, _)
load_loop_NoTimestamp(data, pos, kd) ==
    LET header == ReadAt(data, pos, PyInt(HEADER_SIZE))
    IN  IF Len(header) = 0
        THEN [err |-> "", key_dir |-> kd]
        ELSE IF Len(header) # 12
        THEN [err |-> "Exception", key_dir |-> kd]
        ELSE LET h == decode_header(header)
                 key_bytes == ReadAt(data, pos + HEADER_SIZE, h.key_size)
                 value_position == pos + HEADER_SIZE + Len(key_bytes)
                 skipped == ReadAt(data, value_position, h.value_size)
             IN  IF ~IsAscii(key_bytes)
                 THEN [err |-> "UnicodeDecodeError", key_dir |-> kd]
                 ELSE load_loop_NoTimestamp(data, value_position + Len(skipped),
                        Put(kd, key_bytes,
                            Entry(FileName, <<0, 0>>, h.value_size,
                                  value_position)))

\* load_loop keeping the first record of a key instead of the last
RECURSIVE load_loop_FirstWins(_, _, _)
load_loop_FirstWins(data, pos, kd) ==
    LET header == ReadAt(data, pos, PyInt(HEADER_SIZE))
    IN  IF Len(header) = 0
        THEN [err |-> "", key_dir |-> kd]
        ELSE IF Len(header) # 12
        THEN [err |-> "Exception", key_dir |-> kd]
        ELSE LET h == decode_header(header)
                 key_bytes == ReadAt(data, pos + HEADER_SIZE, h.key_size)
                 value_position == pos + HEADER_SIZE + Len(key_bytes)
                 skipped == ReadAt(data, value_position, h.value_size)
             IN  IF ~IsAscii(key_bytes)
                 THEN [err |-> "UnicodeDecodeError", key_dir |-> kd]
                 ELSE load_loop_FirstWins(data, value_position + Len(skipped),
                        IF key_bytes \in DOMAIN kd THEN kd
                        ELSE Put(kd, key_bytes,
                                 Entry(FileName, h.timestamp, h.value_size,
                                       value_position)))

\* the while loop of __load_file_into_key_dir from read position pos
RECURSIVE load_loop(_, _, _)
load_loop(data, pos, kd) ==
    LET header == ReadAt(data, pos, PyInt(HEADER_SIZE))
    IN  IF Len(header) = 0
        THEN [err |-> "", key_dir |-> kd]
        ELSE IF Len(header) # 12
        THEN [err |-> "Exception", key_dir |-> kd]
        ELSE LET h == decode_header(header)
                 key_bytes == ReadAt(data, pos + HEADER_SIZE, h.key_size)
                 value_position == pos + HEADER_SIZE + Len(key_bytes)
                 skipped == ReadAt(data, value_position, h.value_size)
             IN  IF ~IsAscii(key_bytes)
                 THEN [err |-> "UnicodeDecodeError", key_dir |-> kd]
                 ELSE load_loop(data, value_position + Len(skipped),
                                Put(kd, key_bytes,
                                    Entry(FileName, h.timestamp, h.value_size,
                                          value_position)))

load_file_into_key_dir(data) == load_loop(data, 0, EmptyDir)

\* SetResult stamping every entry of the index with the time of the set
SetResult_StampAll(data, kd, handle_open, key, value, current_time) ==
    LET enc == encode_kv(current_time, key, value)
    IN  IF enc.err # ""
        THEN [err |-> enc.err, file |-> data, key_dir |-> kd]
        ELSE IF ~handle_open
        THEN [err |-> "ValueError", file |-> data, key_dir |-> kd]
        ELSE LET written == data \o enc.bytes
                 value_position == Len(written) - Len(value)
                 put == Put(kd, key, Entry(FileName, current_time,
                                           PyInt(Len(value)), value_position))
             IN  [err |-> "",
                  file |-> written,
                  key_dir |-> [k \in DOMAIN put |->
                                 [put[k] EXCEPT !.timestamp = current_time]]]

\* SetResult leaving value_position of an existing key as it was
SetResult_StalePosition(data, kd, handle_open, key, value, current_time) ==
    LET enc == encode_kv(current_time, key, value)
    IN  IF enc.err # ""
        THEN [err |-> enc.err, file |-> data, key_dir |-> kd]
        ELSE IF ~handle_open
        THEN [err |-> "ValueError", file |-> data, key_dir |-> kd]
        ELSE LET written == data \o enc.bytes
                 value_position == Len(written) - Len(value)
             IN  [err |-> "",
                  file |-> written,
                  key_dir |->
                    IF key \in DOMAIN kd
                    THEN [kd EXCEPT ![key] =
                            [@ EXCEPT !.timestamp = current_time,
                                      !.value_size = PyInt(Len(value))]]
                    ELSE Put(kd, key, Entry(FileName, current_time,
                                            PyInt(Len(value)), value_position))]

\* SetResult taking the value position from the start of the record
SetResult_RecordStart(data, kd, handle_open, key, value, current_time) ==
    LET enc == encode_kv(current_time, key, value)
    IN  IF enc.err # ""
        THEN [err |-> enc.err, file |-> data, key_dir |-> kd]
        ELSE IF ~handle_open
        THEN [err |-> "ValueError", file |-> data, key_dir |-> kd]
        ELSE LET written == data \o enc.bytes
                 value_position == Len(written) - enc.size
             IN  [err |-> "",
                  file |-> written,
                  key_dir |->
                    Put(kd, key, Entry(FileName, current_time,
                                       PyInt(Len(value)), value_position))]

\* SetResult overwriting the old value bytes in place when the key exists and
\* the new value has the size of the old one
SetResult_InPlace(data, kd, handle_open, key, value, current_time) ==
    LET enc == encode_kv(current_time, key, value)
    IN  IF enc.err # ""
        THEN [err |-> enc.err, file |-> data, key_dir |-> kd]
        ELSE IF ~handle_open
        THEN [err |-> "ValueError", file |-> data, key_dir |-> kd]
        ELSE IF key \in DOMAIN kd /\ kd[key].value_size = PyInt(Len(value))
        THEN [err |-> "",
              file |-> [i \in 1..Len(data) |->
                          IF /\ i > kd[key].value_position
                             /\ i <= kd[key].value_position + Len(value)
                          THEN value[i - kd[key].value_position]
                          ELSE data[i]],
              key_dir |-> [kd EXCEPT ![key].timestamp = current_time]]
        ELSE LET written == data \o enc.bytes
                 value_position == Len(written) - Len(value)
             IN  [err |-> "",
                  file |-> written,
                  key_dir |->
                    Put(kd, key, Entry(FileName, current_time,
                                       PyInt(Len(value)), value_position))]

\* SetResult writing the header before the key and the value are encoded
SetResult_HeaderFirst(data, kd, handle_open, key, value, current_time) ==
    LET enc == encode_kv(current_time, key, value)
        header_bytes == encode_header(current_time, PyInt(Len(key)),
                                      PyInt(Len(value)))
    IN  IF enc.err # ""
        THEN [err |-> enc.err,
              file |-> IF handle_open THEN data \o header_bytes.bytes ELSE data,
              key_dir |-> kd]
        ELSE IF ~handle_open
        THEN [err |-> "ValueError", file |-> data, key_dir |-> kd]
        ELSE LET written == data \o enc.bytes
                 value_position == Len(written) - Len(value)
             IN  [err |-> "",
                  file |-> written,
                  key_dir |->
                    Put(kd, key, Entry(FileName, current_time,
                                       PyInt(Len(value)), value_position))]

\* the body of DiskStorage.set: the exception raised, if any, and the file
\* content and key_dir it leaves
\* set taking the end of the last record in its own index for the end of
\* the file
SetResult_OwnOffset(data, kd, handle_open, key, value, current_time) ==
    LET enc == encode_kv(current_time, key, value)
        ends == {kd[k].value_position + kd[k].value_size[2] : k \in DOMAIN kd}
        own_end == IF ends = {} THEN 0
                   ELSE CHOOSE e \in ends : \A x \in ends : x <= e
    IN  IF enc.err # ""
        THEN [err |-> enc.err, file |-> data, key_dir |-> kd]
        ELSE IF ~handle_open
        THEN [err |-> "ValueError", file |-> data, key_dir |-> kd]
        ELSE LET value_position == own_end + Len(enc.bytes) - Len(value)
             IN  [err |-> "",
                  file |-> data \o enc.bytes,
                  key_dir |->
                    IF key \in DOMAIN kd
                    THEN [kd EXCEPT ![key] =
                            [@ EXCEPT !.value_position = value_position,
                                      !.timestamp = current_time,
                                      !.value_size = PyInt(Len(value))]]
                    ELSE Put(kd, key, Entry(FileName, current_time,
                                            PyInt(Len(value)), value_position))]

SetResult(data, kd, handle_open, key, value, current_time) ==
    LET enc == encode_kv(current_time, key, value)
    IN  IF enc.err # ""
        THEN [err |-> enc.err, file |-> data, key_dir |-> kd]
        ELSE IF ~handle_open
        THEN [err |-> "ValueError", file |-> data, key_dir |-> kd]
        ELSE LET written == data \o enc.bytes
                 value_position == Len(written) - Len(value)
             IN  [err |-> "",
                  file |-> written,
                  key_dir |->
                    IF key \in DOMAIN kd
                    THEN [kd EXCEPT ![key] =
                            [@ EXCEPT !.value_position = value_position,
                                      !.timestamp = current_time,
                                      !.value_size = PyInt(Len(value))]]
                    ELSE Put(kd, key, Entry(FileName, current_time,
                                            PyInt(Len(value)), value_position))]

\* GetResult indexing key_dir without the membership test
GetResult_KeyError(data, kd, handle_open, key) ==
    IF key \in DOMAIN kd
    THEN IF ~handle_open
         THEN [err |-> "ValueError", val |-> <<>>]
         ELSE LET b == ReadAt(data, kd[key].value_position, kd[key].value_size)
              IN  IF IsAscii(b)
                  THEN [err |-> "", val |-> b]
                  ELSE [err |-> "UnicodeDecodeError", val |-> <<>>]
    ELSE [err |-> "KeyError", val |-> <<>>]

\* the body of DiskStorage.get: outcome for the key
GetResult(data, kd, handle_open, key) ==
    IF key \in DOMAIN kd
    THEN IF ~handle_open
         THEN [err |-> "ValueError", val |-> <<>>]
         ELSE LET b == ReadAt(data, kd[key].value_position, kd[key].value_size)
              IN  IF IsAscii(b)
                  THEN [err |-> "", val |-> b]
                  ELSE [err |-> "UnicodeDecodeError", val |-> <<>>]
    ELSE [err |-> "", val |-> <<>>]

\* the records of a file that holds complete records only, in file order, as
\* the layout header(12) key_bytes value_bytes lays them out
RECURSIVE RecordsFrom(_, _)
RecordsFrom(data, pos) ==
    IF pos >= Len(data) THEN <<>>
    ELSE LET h == decode_header(SubSeq(data, pos + 1, pos + HEADER_SIZE))
             value_position == pos + HEADER_SIZE + h.key_size[2]
         IN  << [key |-> SubSeq(data, pos + HEADER_SIZE + 1, value_position),
                 value_position |-> value_position,
                 value_size |-> h.value_size[2]] >>
             \o RecordsFrom(data, value_position + h.value_size[2])

\* data is a sequence of complete records from pos on
RECURSIVE CompleteFrom(_, _)
CompleteFrom(data, pos) ==
    \/ pos = Len(data)
    \/ /\ pos + HEADER_SIZE <= Len(data)
       /\ LET h == decode_header(SubSeq(data, pos + 1, pos + HEADER_SIZE))
          IN  /\ h.key_size[1] = 0
              /\ h.value_size[1] = 0
              /\ pos + HEADER_SIZE + h.key_size[2] + h.value_size[2] <= Len(data)
              /\ CompleteFrom(data, pos + HEADER_SIZE + h.key_size[2] + h.value_size[2])

FileKind(data) ==
    IF data = <<>> THEN "empty"
    ELSE IF CompleteFrom(data, 0) THEN "records"
    ELSE "other"

Ret(op, key, val, err) == [op |-> op, key |-> key, val |-> val, err |-> err]

Init ==
    /\ codec = Idle
    /\ conc = Idle
    /\ stores = Idle
    /\ exists \in BOOLEAN
    /\ file = <<>>
    /\ status = "none"
    /\ key_dir = EmptyDir
    /\ read_open = FALSE
    /\ write_open = FALSE
    /\ ret = Ret("init", <<>>, <<>>, "")
    /\ last = EmptyDir
    /\ sets = 0
    /\ crashed = FALSE
    /\ tail_sets = 0
    /\ opened_on = "empty"

\* DiskStorage(file_name), while no other instance is bound to the file
Open ==
    /\ status # "ready"
    /\ opened_on' = FileKind(file)
    /\ UNCHANGED <<exists, file, last, sets, crashed, tail_sets>>
    /\ UNCHANGED <<codec, conc, stores>>
    /\ IF ~exists
       THEN /\ status' = "failed"
            /\ key_dir' = EmptyDir
            /\ read_open' = FALSE
            /\ write_open' = FALSE
            /\ ret' = Ret("open", <<>>, <<>>, "FileNotFoundError")
       ELSE LET r == load_file_into_key_dir(file)
            IN  /\ read_open' = TRUE
                /\ IF r.err # ""
                   THEN /\ status' = "failed"
                        /\ key_dir' = EmptyDir
                        /\ write_open' = FALSE
                        /\ ret' = Ret("open", <<>>, <<>>, r.err)
                   ELSE /\ status' = "ready"
                        /\ key_dir' = r.key_dir
                        /\ write_open' = TRUE
                        /\ ret' = Ret("open", <<>>, <<>>, "")

Set(key, value, current_time) ==
    /\ status \in {"ready", "closed"}
    /\ sets < MaxSets
    /\ crashed => tail_sets < MaxTailSets
    /\ LET r == SetResult(file, key_dir, write_open, key, value, current_time)
       IN  /\ file' = r.file
           /\ key_dir' = r.key_dir
           /\ IF r.err # ""
              THEN /\ ret' = Ret("set", <<>>, <<>>, r.err)
                   /\ UNCHANGED <<last, sets, tail_sets>>
              ELSE /\ ret' = Ret("set", key, value, "")
                   /\ last' = Put(last, key, value)
                   /\ sets' = sets + 1
                   /\ tail_sets' = IF crashed THEN tail_sets + 1 ELSE tail_sets
    /\ UNCHANGED <<exists, status, read_open, write_open, crashed, opened_on>>
    /\ UNCHANGED <<codec, conc, stores>>

Get(key) ==
    /\ status \in {"ready", "closed"}
    /\ LET r == GetResult(file, key_dir, read_open, key)
       IN  ret' = Ret("get", key, r.val, r.err)
    /\ UNCHANGED <<exists, file, status, key_dir, read_open, write_open,
                   last, sets, crashed, tail_sets, opened_on>>
    /\ UNCHANGED <<codec, conc, stores>>

Close ==
    /\ status \in {"ready", "closed"}
    /\ IF write_open
       THEN /\ write_open' = FALSE
            /\ read_open' = FALSE
            /\ status' = "closed"
            /\ ret' = Ret("close", <<>>, <<>>, "")
       ELSE /\ ret' = Ret("close", <<>>, <<>>, "ValueError")
            /\ UNCHANGED <<write_open, read_open, status>>
    /\ UNCHANGED <<exists, file, key_dir, last, sets, crashed, tail_sets, opened_on>>
    /\ UNCHANGED <<codec, conc, stores>>

\* the process dies inside write()/flush() of set: only the first n bytes of
\* the payload reached the file, the object and its handles are gone
CrashInSet(key, value, current_time) ==
    /\ status = "ready"
    /\ sets < MaxSets
    /\ ~crashed
    /\ LET enc == encode_kv(current_time, key, value)
       IN  /\ enc.err = ""
           /\ \E n \in 1..(enc.size - 1) : file' = file \o SubSeq(enc.bytes, 1, n)
    /\ status' = "none"
    /\ key_dir' = EmptyDir
    /\ read_open' = FALSE
    /\ write_open' = FALSE
    /\ sets' = sets + 1
    /\ crashed' = TRUE
    /\ ret' = Ret("crash", <<>>, <<>>, "")
    /\ UNCHANGED <<exists, last, tail_sets, opened_on>>
    /\ UNCHANGED <<codec, conc, stores>>

Next ==
    \/ Open
    \/ \E k \in Keys, v \in Values, t \in Timestamps : Set(k, v, t)
    \/ \E k \in Keys : Get(k)
    \/ Close
    \/ \E k \in Keys, v \in Values, t \in Timestamps : CrashInSet(k, v, t)

Spec == Init /\ [][Next]_vars

\* ------------------------------------------------------------------ codec
\* encode_kv and decode_kv called on their own: codec holds the arguments,
\* the bytes handed to decode_kv and what it returned
CodecTimestamps ==
    { <<0, 0>>, <<0, 1>>, <<1, 2>>, <<255, 256>>, <<65535, 65535>>, <<65536, 0>> }
CodecStrings == { <<>>, <<0>>, <<97>>, <<127>>, <<98, 99>>, <<121, 122>>, <<233>> }
\* bytes that follow a record in a longer buffer
CodecExtras == { <<122>>, <<0, 0, 0, 1, 0, 0, 0, 0, 0, 0, 0, 0>>, <<255>> }

StoreUntouched ==
    UNCHANGED <<exists, file, status, key_dir, read_open, write_open, ret,
                last, sets, crashed, tail_sets, opened_on, conc, stores>>

StoreAtRest ==
    /\ exists = TRUE
    /\ file = <<>>
    /\ status = "none"
    /\ key_dir = EmptyDir
    /\ read_open = FALSE
    /\ write_open = FALSE
    /\ ret = Ret("init", <<>>, <<>>, "")
    /\ last = EmptyDir
    /\ sets = 0
    /\ crashed = FALSE
    /\ tail_sets = 0
    /\ opened_on = "empty"

CodecInit ==
    /\ StoreAtRest
    /\ conc = Idle
    /\ stores = Idle
    /\ \E t \in CodecTimestamps, k \in CodecStrings, v \in CodecStrings :
          codec = [pc |-> "input", shape |-> "exact", timestamp |-> t,
                   key |-> k, value |-> v, size |-> 0, data |-> <<>>,
                   out |-> decode_kv(<<>>)]

CodecEncode ==
    /\ codec.pc = "input"
    /\ LET enc == encode_kv(codec.timestamp, codec.key, codec.value)
       IN  codec' = IF enc.err # ""
                    THEN [codec EXCEPT !.pc = "rejected"]
                    ELSE [codec EXCEPT !.pc = "encoded", !.size = enc.size,
                                       !.data = enc.bytes]
    /\ StoreUntouched

\* the caller hands decode_kv only the first n bytes of the record
CodecCut(n) ==
    /\ codec.pc = "encoded"
    /\ codec.shape = "exact"
    /\ n < Len(codec.data)
    /\ codec' = [codec EXCEPT !.shape = "cut", !.data = SubSeq(codec.data, 1, n)]
    /\ StoreUntouched

\* the caller hands decode_kv the record followed by more bytes
CodecExtend(extra) ==
    /\ codec.pc = "encoded"
    /\ codec.shape = "exact"
    /\ codec' = [codec EXCEPT !.shape = "extended", !.data = codec.data \o extra]
    /\ StoreUntouched

CodecDecode ==
    /\ codec.pc = "encoded"
    /\ codec' = [codec EXCEPT !.pc = "decoded", !.out = decode_kv(codec.data)]
    /\ StoreUntouched

CodecNext ==
    \/ CodecEncode
    \/ \E n \in 0..(HEADER_SIZE + 3) : CodecCut(n)
    \/ \E extra \in CodecExtras : CodecExtend(extra)
    \/ CodecDecode

SpecCodec == CodecInit /\ [][CodecNext]_vars

\* ---------------------------------------------------------------- threads
\* two threads, each calling set once on one Ready DiskStorage over an empty
\* file. conc holds each call's position and locals, the buffer and the
\* position of write_file, and the result of a get made after both returned
Threads == {1, 2}
ThreadKeys == { <<97>>, <<98, 99>> }
ThreadValues == { <<>>, <<121>>, <<121, 122>> }
ThreadTimes == { <<0, 1>>, <<0, 2>> }

\* value_position with the key's length subtracted as well
set_value_position_KeyToo(told, key, value) == told - Len(key) - Len(value)

\* value_position = self.write_file.tell() - len(value)
set_value_position(told, key, value) == told - Len(value)

\* the steps of set from seek to the last index assignment
InSection(pc) == pc \in {"write", "flush", "tell", "index", "stamp", "resize"}

\* thread t takes a step of its section while the other is inside its own
Step(t, pc) ==
    [conc EXCEPT !.pc[t] = pc,
                 !.interleaved = @ \/ \E u \in Threads \ {t} : InSection(conc.pc[u])]

ThreadsUntouched ==
    UNCHANGED <<exists, status, read_open, write_open, ret, last, sets,
                crashed, tail_sets, opened_on, codec, stores>>

ThreadsInit ==
    /\ exists = TRUE
    /\ file = <<>>
    /\ status = "ready"
    /\ key_dir = EmptyDir
    /\ read_open = TRUE
    /\ write_open = TRUE
    /\ ret = Ret("open", <<>>, <<>>, "")
    /\ last = EmptyDir
    /\ sets = 0
    /\ crashed = FALSE
    /\ tail_sets = 0
    /\ opened_on = "empty"
    /\ codec = Idle
    /\ stores = Idle
    /\ \E k \in [Threads -> ThreadKeys], v \in [Threads -> ThreadValues] :
          conc = [pc |-> [t \in Threads |-> "start"],
                  key |-> k,
                  value |-> v,
                  current_time |-> [t \in Threads |-> <<0, 0>>],
                  payload |-> [t \in Threads |-> <<>>],
                  value_position |-> [t \in Threads |-> 0],
                  buffer |-> <<>>,
                  pos |-> 0,
                  interleaved |-> FALSE,
                  got |-> Ret("none", <<>>, <<>>, "")]

\* current_time = int(time.time()); size, payload = format.encode_kv(...)
ThreadEncode(t, now) ==
    /\ conc.pc[t] = "start"
    /\ LET enc == encode_kv(now, conc.key[t], conc.value[t])
       IN  conc' = [conc EXCEPT !.pc[t] = IF enc.err # "" THEN "raised" ELSE "seek",
                                !.current_time[t] = now,
                                !.payload[t] = enc.bytes]
    /\ UNCHANGED <<file, key_dir>>
    /\ ThreadsUntouched

\* self.write_file.seek(0, END_OF_FILE_POSITION): writes the buffered bytes
\* out, at the end of the file since the mode is "ab", then moves to the end
ThreadSeek(t) ==
    /\ conc.pc[t] = "seek"
    /\ file' = file \o conc.buffer
    /\ conc' = [Step(t, "write") EXCEPT !.buffer = <<>>, !.pos = Len(file')]
    /\ UNCHANGED key_dir
    /\ ThreadsUntouched

\* self.write_file.write(payload): the payload goes to the buffer
ThreadWrite(t) ==
    /\ conc.pc[t] = "write"
    /\ conc' = [Step(t, "flush") EXCEPT !.buffer = @ \o conc.payload[t]]
    /\ UNCHANGED <<file, key_dir>>
    /\ ThreadsUntouched

\* self.write_file.flush(): the buffered bytes are appended to the file
ThreadFlush(t) ==
    /\ conc.pc[t] = "flush"
    /\ file' = file \o conc.buffer
    /\ conc' = [Step(t, "tell") EXCEPT !.buffer = <<>>, !.pos = Len(file')]
    /\ UNCHANGED key_dir
    /\ ThreadsUntouched

\* value_position = self.write_file.tell() - len(value); tell() is the
\* position of the file plus the number of buffered bytes
ThreadTell(t) ==
    /\ conc.pc[t] = "tell"
    /\ conc' = [Step(t, "index") EXCEPT
                  !.value_position[t] =
                      set_value_position(conc.pos + Len(conc.buffer),
                                         conc.key[t], conc.value[t])]
    /\ UNCHANGED <<file, key_dir>>
    /\ ThreadsUntouched

\* if key in self.key_dir: first assignment, else: the new Entry
ThreadIndex(t) ==
    /\ conc.pc[t] = "index"
    /\ IF conc.key[t] \in DOMAIN key_dir
       THEN /\ key_dir' = [key_dir EXCEPT ![conc.key[t]].value_position =
                                               conc.value_position[t]]
            /\ conc' = Step(t, "stamp")
       ELSE /\ key_dir' = Put(key_dir, conc.key[t],
                              Entry(FileName, conc.current_time[t],
                                    PyInt(Len(conc.value[t])),
                                    conc.value_position[t]))
            /\ conc' = Step(t, "done")
    /\ UNCHANGED file
    /\ ThreadsUntouched

\* self.key_dir[key].timestamp = current_time
ThreadStamp(t) ==
    /\ conc.pc[t] = "stamp"
    /\ key_dir' = [key_dir EXCEPT ![conc.key[t]].timestamp = conc.current_time[t]]
    /\ conc' = Step(t, "resize")
    /\ UNCHANGED file
    /\ ThreadsUntouched

\* self.key_dir[key].value_size = len(value)
ThreadResize(t) ==
    /\ conc.pc[t] = "resize"
    /\ key_dir' = [key_dir EXCEPT ![conc.key[t]].value_size =
                                      PyInt(Len(conc.value[t]))]
    /\ conc' = Step(t, "done")
    /\ UNCHANGED file
    /\ ThreadsUntouched

AllReturned == \A t \in Threads : conc.pc[t] = "done"

\* a get after both calls have returned
ThreadsGet(key) ==
    /\ AllReturned
    /\ LET r == GetResult(file, key_dir, read_open, key)
       IN  conc' = [conc EXCEPT !.got = Ret("get", key, r.val, r.err)]
    /\ UNCHANGED <<file, key_dir>>
    /\ ThreadsUntouched

ThreadsNext ==
    \/ \E t \in Threads, now \in ThreadTimes : ThreadEncode(t, now)
    \/ \E t \in Threads : ThreadSeek(t)
    \/ \E t \in Threads : ThreadWrite(t)
    \/ \E t \in Threads : ThreadFlush(t)
    \/ \E t \in Threads : ThreadTell(t)
    \/ \E t \in Threads : ThreadIndex(t)
    \/ \E t \in Threads : ThreadStamp(t)
    \/ \E t \in Threads : ThreadResize(t)
    \/ \E key \in ThreadKeys : ThreadsGet(key)

SpecThreads == ThreadsInit /\ [][ThreadsNext]_vars

\* ------------------------------------------------------------- two stores
\* two DiskStorage objects on one file; every call runs to completion before
\* the next starts. stores holds each object's fields, what each object is
\* expected to return (seen), where its own sets put their values (own), and
\* the outcome of the last call
Objects == {1, 2}
StoreKeys == { <<97>>, <<98, 99>> }
StoreValues == { <<>>, <<121>>, <<121, 122>> }
StoreTimes == { <<0, 1>> }

StoreRet(o, op, key, val, err) ==
    [o |-> o, op |-> op, key |-> key, val |-> val, err |-> err]

\* key -> value of the last record of the key, for a file of complete records
RECURSIVE LastValues(_, _)
LastValues(recs, data) ==
    IF recs = <<>> THEN EmptyDir
    ELSE LET r == recs[Len(recs)]
         IN  Put(LastValues(SubSeq(recs, 1, Len(recs) - 1), data), r.key,
                 SubSeq(data, r.value_position + 1, r.value_position + r.value_size))

StoresUntouched ==
    UNCHANGED <<exists, status, key_dir, read_open, write_open, ret, last,
                crashed, tail_sets, opened_on, codec, conc>>

StoresInit ==
    /\ StoreAtRest
    /\ codec = Idle
    /\ conc = Idle
    /\ stores = [obj |-> [o \in Objects |->
                            [status |-> "none", key_dir |-> EmptyDir,
                             read_open |-> FALSE, write_open |-> FALSE,
                             seen |-> EmptyDir, own |-> EmptyDir]],
                 ret |-> StoreRet(0, "init", <<>>, <<>>, "")]

\* DiskStorage(file_name) for object o
StoreOpen(o) ==
    /\ stores.obj[o].status \in {"none", "closed"}
    /\ LET r == load_file_into_key_dir(file)
       IN  stores' =
             IF r.err # ""
             THEN [stores EXCEPT
                     !.obj[o] = [@ EXCEPT !.status = "failed", !.read_open = TRUE,
                                          !.write_open = FALSE,
                                          !.key_dir = r.key_dir,
                                          !.seen = EmptyDir, !.own = EmptyDir],
                     !.ret = StoreRet(o, "open", <<>>, <<>>, r.err)]
             ELSE [stores EXCEPT
                     !.obj[o] = [@ EXCEPT !.status = "ready", !.read_open = TRUE,
                                          !.write_open = TRUE,
                                          !.key_dir = r.key_dir,
                                          !.seen = LastValues(RecordsFrom(file, 0), file),
                                          !.own = EmptyDir],
                     !.ret = StoreRet(o, "open", <<>>, <<>>, "")]
    /\ UNCHANGED <<file, sets>>
    /\ StoresUntouched

\* o.set(key, value), run to completion
StoreSet(o, key, value, current_time) ==
    /\ stores.obj[o].status \in {"ready", "closed"}
    /\ sets < MaxStoreSets
    /\ LET r == SetResult(file, stores.obj[o].key_dir, stores.obj[o].write_open,
                          key, value, current_time)
       IN  /\ file' = r.file
           /\ stores' =
                 [stores EXCEPT
                    !.obj[o] =
                       IF r.err # "" THEN @
                       ELSE [@ EXCEPT !.key_dir = r.key_dir,
                                      !.seen = Put(@, key, value),
                                      !.own = Put(@, key,
                                                  [position |-> Len(file) + HEADER_SIZE + Len(key),
                                                   value |-> value])],
                    !.ret = StoreRet(o, "set", <<>>, <<>>, r.err)]
    /\ sets' = sets + 1
    /\ StoresUntouched

\* o.get(key)
StoreGet(o, key) ==
    /\ stores.obj[o].status \in {"ready", "closed"}
    /\ LET r == GetResult(file, stores.obj[o].key_dir, stores.obj[o].read_open, key)
       IN  stores' = [stores EXCEPT !.ret = StoreRet(o, "get", key, r.val, r.err)]
    /\ UNCHANGED <<file, sets>>
    /\ StoresUntouched

\* o.close()
StoreClose(o) ==
    /\ stores.obj[o].status = "ready"
    /\ stores' = [stores EXCEPT
                    !.obj[o] = [@ EXCEPT !.status = "closed", !.read_open = FALSE,
                                         !.write_open = FALSE],
                    !.ret = StoreRet(o, "close", <<>>, <<>>, "")]
    /\ UNCHANGED <<file, sets>>
    /\ StoresUntouched

StoresNext ==
    \/ \E o \in Objects : StoreOpen(o)
    \/ \E o \in Objects, key \in StoreKeys, value \in StoreValues,
          current_time \in StoreTimes : StoreSet(o, key, value, current_time)
    \/ \E o \in Objects, key \in StoreKeys : StoreGet(o, key)
    \/ \E o \in Objects : StoreClose(o)

SpecTwoStores == StoresInit /\ [][StoresNext]_vars

\* ------------------------------------------------------------ properties
Ok(value) == [err |-> "", val |-> value]

\* number of records of key k in a file of complete records
KeyCount(k) ==
    LET recs == RecordsFrom(file, 0)
    IN  Cardinality({i \in 1..Len(recs) : recs[i].key = k})

\* C1: a store that became Ready on an empty file returns, for every key
\* that was set, the value of the most recent successful set of that key.
C1_LastWriteWins ==
    (status = "ready" /\ opened_on = "empty") =>
        /\ \A k \in DOMAIN last :
              GetResult(file, key_dir, read_open, k) = Ok(last[k])
        /\ (ret.op = "get" /\ ret.key \in DOMAIN last) =>
              (ret.err = "" /\ ret.val = last[ret.key])

C1_Witness ==
    /\ status = "ready" /\ opened_on = "empty"
    /\ ret.op = "get" /\ ret.key \in DOMAIN last
    /\ KeyCount(ret.key) >= 2
    /\ Cardinality(DOMAIN last) = 2
    /\ ret.val = <<121, 122>>

\* C2: with only completed sets and close() in the history of a file that
\* started empty, opening the file again succeeds and get returns, for every
\* key that was set, the value of its last set.
C2_Persistence ==
    /\ (~crashed /\ exists /\ ret.op = "open") =>
          (status = "ready" /\ ret.err = "")
    /\ (~crashed /\ status = "ready" /\ opened_on # "empty") =>
          /\ \A k \in DOMAIN last :
                GetResult(file, key_dir, read_open, k) = Ok(last[k])
          /\ (ret.op = "get" /\ ret.key \in DOMAIN last) =>
                (ret.err = "" /\ ret.val = last[ret.key])

C2_Witness ==
    /\ ~crashed /\ status = "ready" /\ opened_on = "records"
    /\ ret.op = "open"
    /\ \E k \in DOMAIN last :
          /\ KeyCount(k) >= 2
          /\ last[k] # <<>>
          /\ GetResult(file, key_dir, read_open, k) = Ok(last[k])

\* C3: in a Ready store opened on a file of complete records, the index has
\* exactly the keys that have a record in the file, and each entry holds the
\* start and the length of the value field of the last record of its key.
C3_IndexInvariant ==
    (status = "ready" /\ opened_on \in {"empty", "records"}) =>
        LET recs == RecordsFrom(file, 0)
        IN  /\ DOMAIN key_dir = {recs[i].key : i \in 1..Len(recs)}
            /\ \A k \in DOMAIN key_dir :
                  \E i \in 1..Len(recs) :
                     /\ recs[i].key = k
                     /\ \A j \in (i + 1)..Len(recs) : recs[j].key # k
                     /\ key_dir[k].value_position = recs[i].value_position
                     /\ key_dir[k].value_size = PyInt(recs[i].value_size)

C3_Witness ==
    /\ status = "ready" /\ opened_on = "records"
    /\ ret.op = "set" /\ ret.err = ""
    /\ KeyCount(ret.key) >= 2
    /\ Cardinality(DOMAIN key_dir) = 2

\* C4: for every index entry of a Ready store, value offset + value size is
\* at most the current length of the file, after open and after every set.
C4_BoundsInvariant ==
    status = "ready" =>
        \A k \in DOMAIN key_dir :
           /\ key_dir[k].value_size[1] = 0
           /\ key_dir[k].value_position + key_dir[k].value_size[2] <= Len(file)

\* C5: a successful set(key, value) makes the file longer by exactly
\* 12 + len(key) + len(value) bytes and keeps the bytes it held, also for a key
\* that exists already; no set, get, close or open shortens the file or
\* changes a byte of it.
C5_AppendOnly ==
    [][ /\ (ret'.op = "set" /\ ret'.err = "") =>
              Len(file') = Len(file) + HEADER_SIZE + Len(ret'.key) + Len(ret'.val)
        /\ (ret'.op \in {"set", "get", "close", "open"}) =>
              /\ Len(file') >= Len(file)
              /\ SubSeq(file', 1, Len(file)) = file ]_vars

C5_Witness ==
    /\ ret.op = "set" /\ ret.err = "" /\ ~crashed
    /\ KeyCount(ret.key) >= 2
    /\ Len(file) >= 2 * HEADER_SIZE + 2 * Len(ret.key) + Len(ret.val)

\* C6: opening a store on a path where no file exists creates the file and
\* gives a Ready store with an empty index, where get of any key returns "".
C6_OpenCreates ==
    [][ (ret'.op = "open" /\ ~exists) =>
            /\ exists'
            /\ status' = "ready"
            /\ key_dir' = EmptyDir
            /\ \A k \in Keys :
                  GetResult(file', key_dir', read_open', k) = Ok(<<>>) ]_vars

\* some record of data, from pos on, has a complete header and fewer key and
\* value bytes after it than the header declares
RECURSIVE TruncatedBody(_, _)
TruncatedBody(data, pos) ==
    /\ pos + HEADER_SIZE <= Len(data)
    /\ LET h == decode_header(SubSeq(data, pos + 1, pos + HEADER_SIZE))
       IN  IF /\ h.key_size[1] = 0
              /\ h.value_size[1] = 0
              /\ pos + HEADER_SIZE + h.key_size[2] + h.value_size[2] <= Len(data)
           THEN TruncatedBody(data, pos + HEADER_SIZE + h.key_size[2]
                                        + h.value_size[2])
           ELSE TRUE

\* C7: when the file ends before the key or value bytes that a record's
\* header declares, open fails and the store does not become Ready.
C7_TruncatedBodyRejected ==
    (ret.op = "open" /\ TruncatedBody(file, 0)) => status # "ready"

\* the header boundary at which the startup scan of data, started at pos,
\* finds fewer than 12 bytes: rem is the number of bytes left there; ascii is
\* FALSE when a key on the way does not decode
RECURSIVE ScanEnd(_, _)
ScanEnd(data, pos) ==
    LET avail == Len(data) - pos
    IN  IF avail < HEADER_SIZE
        THEN [rem |-> avail, ascii |-> TRUE]
        ELSE LET h == decode_header(SubSeq(data, pos + 1, pos + HEADER_SIZE))
                 k == ReadCount(h.key_size, avail - HEADER_SIZE)
                 v == ReadCount(h.value_size, avail - HEADER_SIZE - k)
             IN  IF IsAscii(SubSeq(data, pos + HEADER_SIZE + 1, pos + HEADER_SIZE + k))
                 THEN ScanEnd(data, pos + HEADER_SIZE + k + v)
                 ELSE [rem |-> 0 - 1, ascii |-> FALSE]

\* C8: when the startup scan finds 1 to 11 bytes at a header boundary, open
\* fails and the store is not Ready; when it finds 0 bytes there, the scan
\* ends and open succeeds.
C8_ShortHeaderRejected ==
    (ret.op = "open" /\ exists) =>
        LET e == ScanEnd(file, 0)
        IN  /\ (e.rem \in 1..(HEADER_SIZE - 1)) =>
                  (status = "failed" /\ ret.err = "Exception")
            /\ (e.rem = 0) => (status = "ready" /\ ret.err = "")

C8_Witness ==
    /\ ret.op = "open" /\ exists
    /\ status = "failed" /\ ret.err = "Exception"
    /\ Len(file) > HEADER_SIZE
    /\ ScanEnd(file, 0).rem \in 1..(HEADER_SIZE - 1)

\* C9: after close() every get and every set fails, for any key.
C9_OpsAfterCloseFail ==
    (status = "closed" /\ ret.op \in {"get", "set"}) => ret.err # ""

\* C10: a set whose encoding fails (a timestamp outside the unsigned 32-bit
\* range, a key or value with a character beyond 7 bits) leaves the content
\* and the length of the file and the index as they were.
C10_FailedSetAtomic ==
    [][ (/\ ret'.op = "set"
         /\ ret'.err \in {"struct.error", "OverflowError", "UnicodeEncodeError"}) =>
            /\ file' = file
            /\ exists' = exists
            /\ key_dir' = key_dir ]_vars

C10_Witness ==
    /\ ret.op = "set" /\ ret.err = "UnicodeEncodeError"
    /\ status = "ready"
    /\ Cardinality(DOMAIN key_dir) = 2

\* C11: when open fails, every file handle the store had opened is closed
\* again by the time the error reaches the caller.
C11_HandlesReleased ==
    (ret.op = "open" /\ ret.err # "") => (~read_open /\ ~write_open)

\* the bytes of key k occur somewhere in data
Occurs(k, data) ==
    \E i \in 1..Len(data) :
        i + Len(k) - 1 <= Len(data) /\ SubSeq(data, i, i + Len(k) - 1) = k

\* C12: in a Ready store, get of a key that was never set and has no record
\* in the file (its bytes occur nowhere in it) returns "" without raising, and
\* leaves the file and the index as they were.
C12_MissingKey ==
    [][ (/\ ret'.op = "get"
         /\ status = "ready"
         /\ ret'.key \notin DOMAIN last
         /\ ~Occurs(ret'.key, file)) =>
            /\ ret'.err = ""
            /\ ret'.val = <<>>
            /\ file' = file
            /\ key_dir' = key_dir
            /\ status' = "ready" ]_vars

C12_Witness ==
    /\ ret.op = "get" /\ status = "ready" /\ ~crashed
    /\ ret.key = <<98, 99>>
    /\ DOMAIN last = {<<97>>}
    /\ opened_on = "records"
    /\ ret.err = "" /\ ret.val = <<>>

\* C16: with only completed sets and close() in the history of a file that
\* started empty, the index built by the startup scan of a reopen equals the
\* index the closed store held: the same keys and, for every key, the same
\* value offset, value size and timestamp.
C16_ScanRebuildsIndex ==
    [][ (ret'.op = "open" /\ status = "closed" /\ ~crashed) =>
            /\ status' = "ready"
            /\ DOMAIN key_dir' = DOMAIN key_dir
            /\ \A k \in DOMAIN key_dir :
                  /\ key_dir'[k].value_position = key_dir[k].value_position
                  /\ key_dir'[k].value_size = key_dir[k].value_size
                  /\ key_dir'[k].timestamp = key_dir[k].timestamp ]_vars

C16_Witness ==
    /\ ret.op = "open" /\ status = "ready" /\ ~crashed
    /\ DOMAIN key_dir = {<<97>>, <<98, 99>>}
    /\ KeyCount(<<97>>) >= 2
    /\ key_dir[<<97>>].timestamp = <<65535, 65535>>
    /\ key_dir[<<98, 99>>].timestamp = <<0, 1>>
    /\ key_dir[<<97>>].value_size = <<0, 2>>

\* C19: a successful set(k, v) inserts or overwrites the entry of k and leaves
\* the entry of every other key as it was; while the store stays Ready no step
\* removes a key from the index.
C19_SetFrame ==
    [][ /\ (ret'.op = "set" /\ ret'.err = "") =>
              /\ DOMAIN key_dir' = (DOMAIN key_dir) \cup {ret'.key}
              /\ \A k \in (DOMAIN key_dir) \ {ret'.key} : key_dir'[k] = key_dir[k]
        /\ (status = "ready" /\ status' = "ready") =>
              (DOMAIN key_dir) \subseteq (DOMAIN key_dir') ]_vars

C19_Witness ==
    /\ ret.op = "set" /\ ret.err = "" /\ status = "ready"
    /\ ret.key = <<97>>
    /\ KeyCount(<<97>>) >= 2
    /\ <<98, 99>> \in DOMAIN key_dir
    /\ key_dir[<<98, 99>>].timestamp # key_dir[<<97>>].timestamp

\* C18: when open succeeded on a file left with a trailing incomplete record
\* by a crash, then (a) right after a set(k, v), get of every other key of the
\* index returns only bytes the file held before that set, (b) after close()
\* the file opens again, and (c) get(k) then returns v.
C18_DurableAfterAcceptedOpen ==
    /\ (/\ crashed /\ tail_sets = 1 /\ status = "ready"
        /\ ret.op = "set" /\ ret.err = "") =>
          \A k \in (DOMAIN key_dir) \ {ret.key} :
             LET g == GetResult(file, key_dir, read_open, k)
             IN  /\ g.err = ""
                 /\ key_dir[k].value_position + Len(g.val)
                      <= Len(file) - (HEADER_SIZE + Len(ret.key) + Len(ret.val))
    /\ (crashed /\ tail_sets >= 1 /\ ret.op = "open") => status = "ready"
    /\ (crashed /\ tail_sets >= 1 /\ status = "ready" /\ ret.op = "open") =>
          \A k \in DOMAIN last :
             (DOMAIN last = {k}) =>
                 GetResult(file, key_dir, read_open, k) = Ok(last[k])

\* C13: for every timestamp in [0, 2^32 - 1] and 7-bit key and value,
\* encode_kv succeeds, the length it returns is 12 + len(key) + len(value),
\* and decode_kv of its bytes returns the timestamp, key and value.
C13_RoundTrip ==
    LET valid == /\ codec.timestamp[1] \in 0..(Half - 1)
                 /\ IsAscii(codec.key) /\ IsAscii(codec.value)
    IN  /\ (codec.pc = "rejected") => ~valid
        /\ (codec.pc \in {"encoded", "decoded"}) =>
              /\ valid
              /\ codec.size = 12 + Len(codec.key) + Len(codec.value)
        /\ (codec.pc = "decoded" /\ codec.shape = "exact") =>
              codec.out = [err |-> "", timestamp |-> codec.timestamp,
                           key |-> codec.key, value |-> codec.value]

C13_Witness ==
    /\ codec.pc = "decoded" /\ codec.shape = "exact"
    /\ codec.timestamp = <<255, 256>>
    /\ codec.key = <<98, 99>> /\ codec.value = <<>>
    /\ codec.out.err = "" /\ codec.out.key = <<98, 99>>

\* C14: decode_kv given fewer bytes than the 12 + key_len + value_len of its
\* record fails and returns no triple.
C14_ShortDecodeFails ==
    (codec.pc = "decoded" /\ codec.shape = "cut") => codec.out.err # ""

\* C17: decode_kv given the record followed by more bytes returns as value
\* the value_len bytes after the key and nothing of what follows.
C17_ValueByDeclaredLength ==
    (codec.pc = "decoded" /\ codec.shape = "extended") =>
        (codec.out.err = "" /\ codec.out.value = codec.value)

\* the entry of k holds the start and the length of the value field of the
\* last record of k in data
PointsAtLatest(data, kd, k) ==
    LET recs == RecordsFrom(data, 0)
    IN  \E i \in 1..Len(recs) :
           /\ recs[i].key = k
           /\ \A j \in (i + 1)..Len(recs) : recs[j].key # k
           /\ kd[k].value_position = recs[i].value_position
           /\ kd[k].value_size = PyInt(recs[i].value_size)

\* the values that the two calls set for key k
ThreadValuesSet(k) == {conc.value[t] : t \in {u \in Threads : conc.key[u] = k}}

\* C15: two threads calling set on one store can leave an index entry that
\* does not point at the value of its key's latest record, so that get
\* returns bytes that were never set for the key; this happens only when
\* the seek-write-flush-tell-update steps of the two calls interleaved.
C15_CorruptionNeedsInterleaving ==
    (AllReturned /\ ~conc.interleaved) =>
        /\ \A k \in DOMAIN key_dir : PointsAtLatest(file, key_dir, k)
        /\ (conc.got.op = "get" /\ conc.got.key \in DOMAIN key_dir) =>
              (conc.got.err = "" /\ conc.got.val \in ThreadValuesSet(conc.got.key))

C15_Witness ==
    /\ AllReturned /\ conc.interleaved
    /\ conc.got.op = "get"
    /\ conc.got.key \in DOMAIN key_dir
    /\ ~PointsAtLatest(file, key_dir, conc.got.key)
    /\ conc.got.val \notin ThreadValuesSet(conc.got.key)

\* C20: with two objects open on one file and no call interleaved with
\* another, every entry of an object points at the value bytes written by
\* that object's own last set of the key, get on an object returns the value
\* of that set, and a set made through the other object is not seen by the
\* object until it is reopened.
C20_TwoStoresSequential ==
    /\ \A o \in Objects :
          stores.obj[o].status = "ready" =>
             LET me == stores.obj[o]
             IN  /\ DOMAIN me.key_dir = DOMAIN me.seen
                 /\ \A k \in DOMAIN me.seen :
                       GetResult(file, me.key_dir, me.read_open, k) = Ok(me.seen[k])
                 /\ \A k \in DOMAIN me.own :
                       /\ me.key_dir[k].value_position = me.own[k].position
                       /\ me.key_dir[k].value_size = PyInt(Len(me.own[k].value))
                       /\ ReadAt(file, me.own[k].position, PyInt(Len(me.own[k].value)))
                            = me.own[k].value
    /\ (stores.ret.op = "get" /\ stores.ret.o \in Objects) =>
          LET me == stores.obj[stores.ret.o]
          IN  (me.status = "ready" /\ stores.ret.key \in DOMAIN me.seen) =>
                 (stores.ret.err = "" /\ stores.ret.val = me.seen[stores.ret.key])

\* object 1 and object 2 both set the key; the file's last record of the
\* key is object 2's, and get on object 1 returns object 1's value
C20_Witness ==
    /\ \A o \in Objects : stores.obj[o].status = "ready"
    /\ stores.ret.op = "get" /\ stores.ret.o = 1 /\ stores.ret.key = <<98, 99>>
    /\ <<98, 99>> \in DOMAIN stores.obj[1].own
    /\ <<98, 99>> \in DOMAIN stores.obj[2].own
    /\ stores.ret.val = stores.obj[1].own[<<98, 99>>].value
    /\ stores.obj[2].own[<<98, 99>>].position > stores.obj[1].own[<<98, 99>>].position
    /\ stores.obj[2].own[<<98, 99>>].value # stores.ret.val
    /\ LastValues(RecordsFrom(file, 0), file)[<<98, 99>>] # stores.ret.val
====
